---- MODULE Spec2Model ----
(***************************************************************************)
(* Model of the AI media pipeline of apps/ai:                              *)
(*   - VideoPipelineService.process and ImagePipelineService.process       *)
(*     (apps/ai/app/services/ai_pipeline.py),                              *)
(*   - the endpoints process_video, process_image, process_video_async     *)
(*     and the background task run_pipeline (apps/ai/app/main.py),         *)
(*   - the text-safety port ShieldGemmaService.moderate_text               *)
(*     (shieldgemma_service.py) and the image-safety port moderate_image   *)
(*     (gemini_moderation.py).                                             *)
(* Scores are in hundredths (0.55 is 55).  An Optional value of the        *)
(* source is a sequence of length 0 (None) or 1.  Timestamps and           *)
(* durations are not modelled.                                             *)
(***************************************************************************)
EXTENDS Integers, Sequences, FiniteSets, TLC

\* ------------------------------------------------------------------ bounds
MaxTextLen == 2
NumCategories == 2
MaxImageCategories == 1
MaxAttemptFailures == 3

\* -------------------------------------------------------- generic helpers
None == << >>
Some(x) == << x >>

Max(a, b) == IF a >= b THEN a ELSE b
Min(a, b) == IF a <= b THEN a ELSE b

RECURSIVE SeqsUpTo(_, _)
SeqsUpTo(S, n) ==
  IF n = 0 THEN { << >> }
  ELSE LET shorter == SeqsUpTo(S, n - 1)
       IN  shorter \cup { Append(s, x) : s \in { t \in shorter : Len(t) = n - 1 }, x \in S }

\* ------------------------------------------------------------------ text
Chars == { " ", "h" }
Texts == SeqsUpTo(Chars, MaxTextLen)

RECURSIVE LStrip(_)
LStrip(t) == IF t # << >> /\ Head(t) = " " THEN LStrip(Tail(t)) ELSE t

RECURSIVE RStrip(_)
RStrip(t) ==
  IF t # << >> /\ t[Len(t)] = " " THEN RStrip(SubSeq(t, 1, Len(t) - 1)) ELSE t

\* str.strip()
Strip(t) == RStrip(LStrip(t))

\* str.lower() on the strings the model uses
Lower(s) ==
  CASE s = ".GIF" -> ".gif"
    [] s = "IMAGE/GIF" -> "image/gif"
    [] s = "SEVERE" -> "severe"
    [] OTHER -> s

\* ----------------------------------------------------- pipeline enums
PipelineStatus == { "pending", "running", "completed", "failed", "skipped" }
PipelineVerdict == { "safe", "unsafe", "error" }

\* StageResult(stage=..., status=..., error=..., data={"reason": ...})
StageResult(stage, status, error, reason) ==
  [ stage |-> stage, status |-> status, error |-> error, reason |-> reason ]

\* ------------------------------------------------------------- settings
SHIELDGEMMA_THRESHOLD_UNSAFE == 50
SHIELDGEMMA_THRESHOLD_WARNING == 30

\* Settings is a pydantic BaseSettings: the defaults, or values from the
\* environment / .env file.
DefaultSettings ==
  [ SHIELDGEMMA_THRESHOLD_UNSAFE  |-> SHIELDGEMMA_THRESHOLD_UNSAFE,
    SHIELDGEMMA_THRESHOLD_WARNING |-> SHIELDGEMMA_THRESHOLD_WARNING ]

Settings ==
  { DefaultSettings,
    [ SHIELDGEMMA_THRESHOLD_UNSAFE |-> 90, SHIELDGEMMA_THRESHOLD_WARNING |-> 30 ] }

\* ------------------------------------------------- text-safety port
\* list(SafetyCategory); the first NumCategories of them are analysed
SafetyCategory == << "Dangerous Content", "Harassment", "Hate Speech", "Sexually Explicit" >>

\* How the generated answer starts: first word "yes" / "no", or else which
\* phrases the first 100 characters hold.
FirstWords == { "yes", "no", "violation_phrase", "safe_phrase", "ambiguous" }

\* How many strong / uncertain / severity indicator words the answer holds
\* (the lists hold 8, 9 and 7 words).
IndicatorCounts ==
  { [ strong |-> 0, uncertain |-> 0, severity |-> 0 ],
    [ strong |-> 0, uncertain |-> 2, severity |-> 0 ],
    [ strong |-> 0, uncertain |-> 9, severity |-> 0 ],
    [ strong |-> 8, uncertain |-> 0, severity |-> 7 ] }

NoIndicators == [ strong |-> 0, uncertain |-> 0, severity |-> 0 ]

\* What one _analyze_category call meets: the model fails to load, generate()
\* raises, the decoded answer is empty, or there is an answer to parse.
Generations ==
  { [ kind |-> k, first |-> "no", ind |-> NoIndicators ] :
      k \in { "load_error", "generation_error", "empty" } }
  \cup
  { [ kind |-> "text", first |-> f, ind |-> i ] : f \in FirstWords, i \in IndicatorCounts }

\* _parse_response without the clamp of the final score
_parse_response_unclamped(first, ind) ==
  LET is_violation == first \in { "yes", "violation_phrase" }
      base_score ==
        CASE first = "yes" -> 80
          [] first = "no" -> 15
          [] first = "violation_phrase" -> 65
          [] first = "safe_phrase" -> 25
          [] OTHER -> 35
      score_adjustment ==
        IF is_violation
        THEN 5 * ind.strong - 8 * ind.uncertain + 3 * ind.severity
        ELSE 8 * ind.uncertain - 5 * ind.strong
  IN  [ is_violation |-> is_violation,
        confidence |-> Max(0, base_score + score_adjustment) ]

_parse_response(first, ind) ==
  LET is_violation == first \in { "yes", "violation_phrase" }
      base_score ==
        CASE first = "yes" -> 80
          [] first = "no" -> 15
          [] first = "violation_phrase" -> 65
          [] first = "safe_phrase" -> 25
          [] OTHER -> 35
      score_adjustment ==
        IF is_violation
        THEN 5 * ind.strong - 8 * ind.uncertain + 3 * ind.severity
        ELSE 8 * ind.uncertain - 5 * ind.strong
      final_score == base_score + score_adjustment
  IN  [ is_violation |-> is_violation,
        confidence |-> IF is_violation
                       THEN Max(55, Min(95, final_score))
                       ELSE Max(5, Min(40, final_score)) ]

_analyze_category(gen) ==
  CASE gen.kind \in { "load_error", "generation_error" } ->
         [ raised |-> TRUE, is_violation |-> FALSE, confidence |-> 0 ]
    [] gen.kind = "empty" ->
         [ raised |-> FALSE, is_violation |-> FALSE, confidence |-> 15 ]
    [] OTHER ->
         LET p == _parse_response(gen.first, gen.ind)
         IN  [ raised |-> FALSE, is_violation |-> p.is_violation, confidence |-> p.confidence ]

\* the for loop of moderate_text over categories i..NumCategories
RECURSIVE ModerateLoop(_, _, _, _)
ModerateLoop(gens, i, flagged_categories, max_score) ==
  IF i > Len(gens) THEN [ flagged_categories |-> flagged_categories, max_score |-> max_score ]
  ELSE LET r == _analyze_category(gens[i])
       IN  IF ~r.raised /\ r.is_violation
           THEN ModerateLoop(gens, i + 1, Append(flagged_categories, SafetyCategory[i]),
                             Max(max_score, r.confidence))
           ELSE ModerateLoop(gens, i + 1, flagged_categories, max_score)

ModerationVerdictOf(max_score, cfg) ==
  IF max_score >= cfg.SHIELDGEMMA_THRESHOLD_UNSAFE THEN "unsafe"
  ELSE IF max_score >= cfg.SHIELDGEMMA_THRESHOLD_WARNING THEN "warning"
  ELSE "safe"

\* ShieldGemmaService.moderate_text(text) with categories = None
moderate_text(text, gens, cfg) ==
  IF Strip(text) = << >>
  THEN [ verdict |-> "safe", is_safe |-> TRUE, flagged_categories |-> << >>,
         max_violation_score |-> 0 ]
  ELSE LET acc == ModerateLoop(gens, 1, << >>, 0)
           verdict == ModerationVerdictOf(acc.max_score, cfg)
       IN  [ verdict |-> verdict, is_safe |-> (verdict = "safe"),
             flagged_categories |-> acc.flagged_categories,
             max_violation_score |-> acc.max_score ]

\* category_results of moderate_text: what the loop records for each category
category_results(gens) ==
  [ i \in DOMAIN gens |->
      LET r == _analyze_category(gens[i])
      IN  IF r.raised
          THEN [ violated |-> FALSE, confidence |-> 0, error |-> TRUE ]
          ELSE [ violated |-> r.is_violation, confidence |-> r.confidence, error |-> FALSE ] ]

\* no moderate_text call is followed
NoTextPortCall == [ pc |-> "idle" ]

\* what moderate_text can return for a text under a configuration, over all
\* the generations of the model
TextModerationResults ==
  [ text \in { Strip(raw) : raw \in Texts }, cfg \in Settings |->
      { moderate_text(text, gens, cfg) : gens \in [ 1..NumCategories -> Generations ] } ]

\* The ways the text-safety call of the video pipeline can end: the port
\* returns, raises ShieldGemmaError, or something else raises (for one,
\* run_in_executor cannot start a worker thread).
TextSafetyCalls == { "returns", "ShieldGemmaError", "Exception" }

\* ------------------------------------------------ image-safety port
SafetyLevel == { "strict", "moderate", "lenient" }

\* A category string of the classifier's answer: "<name>:<severity>", or a
\* bare "<name>" (colon = FALSE).
CategoryStrings ==
  { [ name |-> "violence", colon |-> TRUE, severity |-> sv ] :
      sv \in { "none", "mild", "moderate", "severe", "SEVERE", "graphic" } }
  \cup { [ name |-> "violence", colon |-> FALSE, severity |-> "" ] }

\* severity_map.get(severity_str, 2)
severity_map(severity_str) ==
  CASE severity_str = "none" -> 0
    [] severity_str = "mild" -> 1
    [] severity_str = "moderate" -> 2
    [] severity_str = "severe" -> 3
    [] OTHER -> 2

RECURSIVE MaxSeverity(_, _)
MaxSeverity(categories, max_severity) ==
  IF categories = << >> THEN max_severity
  ELSE LET cat == Head(categories)
           severity_str == IF cat.colon THEN Lower(cat.severity) ELSE "moderate"
       IN  MaxSeverity(Tail(categories), Max(max_severity, severity_map(severity_str)))

_apply_threshold(categories, level) ==
  LET max_severity == MaxSeverity(categories, 0)
  IN  CASE level = "strict" -> max_severity <= 0
        [] level = "moderate" -> max_severity <= 1
        [] OTHER -> max_severity <= 2

max_retries == 3
backoff_seconds == 1

\* the for loop of _call_gemini_with_retry from attempt on, when the first
\* `failures` calls of generate_content raise
RECURSIVE RetryLoop(_, _, _)
RetryLoop(failures, attempt, sleeps) ==
  IF attempt > max_retries
  THEN [ raised |-> TRUE, attempts |-> max_retries, sleeps |-> sleeps ]
  ELSE IF attempt > failures
  THEN [ raised |-> FALSE, attempts |-> attempt, sleeps |-> sleeps ]
  ELSE IF attempt < max_retries
  THEN RetryLoop(failures, attempt + 1, Append(sleeps, backoff_seconds * attempt))
  ELSE [ raised |-> TRUE, attempts |-> attempt, sleeps |-> sleeps ]

_call_gemini_with_retry(failures) == RetryLoop(failures, 1, << >>)

SupportedMimeTypes == { "image/jpeg", "image/png", "image/webp", "image/heic", "image/heif" }

\* What the classifier does for one moderate_image call: how many calls fail
\* before one succeeds, and the text of the answer (a JSON object, text that
\* is not JSON, or JSON that is not an object).
GeminiAnswers ==
  { [ failures |-> f, body |-> b, is_flagged |-> fl, categories |-> c ] :
      f \in 0..MaxAttemptFailures,
      b \in { "object", "invalid_json", "not_an_object" },
      fl \in BOOLEAN,
      c \in SeqsUpTo(CategoryStrings, MaxImageCategories) }

ImageCallRaises(outcome, level) ==
  [ outcome |-> outcome, is_safe |-> FALSE, categories |-> << >>, level |-> level ]

\* moderate_image(image_bytes, mime_type, level)
moderate_image(mime_type, level, gem) ==
  IF mime_type \notin SupportedMimeTypes THEN ImageCallRaises("ModerationError", level)
  ELSE IF _call_gemini_with_retry(gem.failures).raised THEN ImageCallRaises("ModerationError", level)
  ELSE IF gem.body = "invalid_json" THEN ImageCallRaises("ModerationError", level)
  ELSE IF gem.body = "not_an_object" THEN ImageCallRaises("Exception", level)
  ELSE [ outcome |-> "returns",
         is_safe |-> _apply_threshold(gem.categories, level) /\ ~gem.is_flagged,
         categories |-> gem.categories,
         level |-> level ]

\* ------------------------------------------------------------ requests
\* file_url, as urlparse() splits it: the extension that ends the path, and
\* the extension that ends the query string ("" when there is no query)
FileUrls == { [ path_ext |-> e, query_ext |-> q ] : e \in { ".mp4", ".gif", ".GIF" }, q \in { "", ".gif" } }

VideoPipelineRequest ==
  { [ file_url |-> u, skip_moderation |-> sm, skip_summary |-> ss ] :
      u \in FileUrls, sm \in BOOLEAN, ss \in BOOLEAN }

ImagePipelineRequest ==
  { [ file_url |-> u, safety_level |-> l ] : u \in FileUrls, l \in SafetyLevel }

\* ------------------------------------------- what every stage does
\* an exception object that leaves process(): its class and its message
InternalErrors ==
  { [ type |-> "MemoryError", message |-> "" ],
    [ type |-> "RecursionError", message |-> "maximum recursion depth exceeded" ] }

\* str(e)
str(e) == e.message

\* an exception that no except clause of process() catches leaves process()
Propagates(locals, e) == [ locals EXCEPT !.raised = Some(e) ]

\* stage_started_at = datetime.utcnow(), before the await of the stage
StageStarts(locals, now) == [ locals EXCEPT !.stage_started_at = now ]

\* the timestamps of a stage: none for a skipped stage
StageTimes(started_at, completed_at) ==
  [ started_at |-> started_at, completed_at |-> completed_at ]

\* StageRecorded in which the next stage keeps the start read by the last one
StageRecorded_stale_start(locals, now) ==
  LET last == locals.stages[Len(locals.stages)]
  IN  [ locals EXCEPT
          !.stage_times =
             Append(@, IF last.status = "skipped" THEN StageTimes(None, None)
                       ELSE StageTimes(Some(locals.stage_started_at), Some(now))) ]

\* started_at=stage_started_at, completed_at=datetime.utcnow() of the
\* StageResult that the stage has just appended (a skipped stage has neither),
\* and the stage_started_at that the next stage reads before its own await
StageRecorded(locals, now) ==
  LET last == locals.stages[Len(locals.stages)]
  IN  [ locals EXCEPT
          !.stage_times =
             Append(@, IF last.status = "skipped" THEN StageTimes(None, None)
                       ELSE StageTimes(Some(locals.stage_started_at), Some(now))),
          !.stage_started_at = now ]

\* where process() goes on: to its next stage, or out with the exception
NextPc(locals, next_pc, raised_pc) == IF locals.raised # None THEN raised_pc ELSE next_pc

\* ------------------------------------- VideoPipelineService.process
\* the locals of process() as it starts
VideoLocals ==
  [ stages |-> << >>,
    transcription_data |-> None,
    moderation_data |-> None,
    summary_data |-> None,
    short_circuited |-> FALSE,
    short_circuit_reason |-> None,
    overall_verdict |-> "safe",
    is_safe |-> TRUE,
    stage_started_at |-> 0,
    stage_times |-> << >>,
    raised |-> None ]

TranscriptionExceptions == { "DownloadError", "UnsupportedMediaError", "Exception" }

\* transcribe_from_url returned `text`
TranscriptionCompleted(v, text) ==
  LET done == [ v EXCEPT !.transcription_data = Some([ text |-> text ]),
                         !.stages = Append(@, StageResult("transcription", "completed", None, None)) ]
  IN  IF Strip(text) = << >>
      THEN [ done EXCEPT !.short_circuited = TRUE,
                         !.short_circuit_reason = Some("Transcription returned empty text"),
                         !.overall_verdict = "error" ]
      ELSE done

\* an except branch that records the stage and raises again
TranscriptionFailed_propagates(v, exc) ==
  Propagates([ v EXCEPT !.stages = Append(@, StageResult("transcription", "failed",
                                                         Some(exc), None)) ],
             [ type |-> exc, message |-> exc ])

\* transcribe_from_url raised `exc`
TranscriptionFailed(v, exc) ==
  LET error == CASE exc = "DownloadError" -> "Download failed"
                 [] exc = "UnsupportedMediaError" -> "Unsupported media"
                 [] OTHER -> "Exception"
      reason == CASE exc = "DownloadError" -> "Failed to download media"
                  [] exc = "UnsupportedMediaError" -> "Unsupported media format"
                  [] OTHER -> "Transcription error"
  IN  [ v EXCEPT !.stages = Append(@, StageResult("transcription", "failed", Some(error), None)),
                 !.overall_verdict = "error",
                 !.short_circuited = TRUE,
                 !.short_circuit_reason = Some(reason) ]

\* Stage2Runs without the test of the skip flag
Stage2Runs_ignores_skip_moderation(v, request) == ~v.short_circuited

\* if not short_circuited and not request.skip_moderation
Stage2Runs(v, request) == ~v.short_circuited /\ ~request.skip_moderation

\* ModerationCompleted that sets the verdict but does not short-circuit
ModerationCompleted_no_short_circuit(v, mod_result) ==
  LET done == [ v EXCEPT !.moderation_data = Some(mod_result),
                         !.stages = Append(@, StageResult("text_moderation", "completed", None, None)) ]
  IN  IF ~mod_result.is_safe
      THEN [ done EXCEPT !.overall_verdict = "unsafe", !.is_safe = FALSE ]
      ELSE done

\* ModerationCompleted that short-circuits on the verdict 'unsafe' alone
ModerationCompleted_only_unsafe_verdict(v, mod_result) ==
  LET done == [ v EXCEPT !.moderation_data = Some(mod_result),
                         !.stages = Append(@, StageResult("text_moderation", "completed", None, None)) ]
  IN  IF mod_result.verdict = "unsafe"
      THEN [ done EXCEPT !.short_circuited = TRUE,
                         !.short_circuit_reason = Some("Content moderation failed"),
                         !.overall_verdict = "unsafe",
                         !.is_safe = FALSE ]
      ELSE done

\* the text-safety call returned mod_result
ModerationCompleted(v, mod_result) ==
  LET done == [ v EXCEPT !.moderation_data = Some(mod_result),
                         !.stages = Append(@, StageResult("text_moderation", "completed", None, None)) ]
  IN  IF ~mod_result.is_safe
      THEN [ done EXCEPT !.short_circuited = TRUE,
                         !.short_circuit_reason = Some("Content moderation failed"),
                         !.overall_verdict = "unsafe",
                         !.is_safe = FALSE ]
      ELSE done

\* ModerationShieldGemmaError that short-circuits the run
ModerationShieldGemmaError_short_circuits(v) ==
  [ v EXCEPT !.stages = Append(@, StageResult("text_moderation", "failed", Some("ShieldGemmaError"), None)),
             !.short_circuited = TRUE,
             !.short_circuit_reason = Some("Moderation service error"),
             !.moderation_data = Some([ verdict |-> "error", is_safe |-> FALSE,
                                        flagged_categories |-> << >>,
                                        max_violation_score |-> 0 ]) ]

\* except ShieldGemmaError
ModerationShieldGemmaError(v) ==
  [ v EXCEPT !.stages = Append(@, StageResult("text_moderation", "failed", Some("ShieldGemmaError"), None)),
             !.moderation_data = Some([ verdict |-> "error", is_safe |-> FALSE,
                                        flagged_categories |-> << >>,
                                        max_violation_score |-> 0 ]) ]

\* except Exception
ModerationException(v) ==
  [ v EXCEPT !.stages = Append(@, StageResult("text_moderation", "failed", Some("Exception"), None)) ]

\* elif request.skip_moderation ... elif short_circuited
ModerationSkipped(v, request) ==
  IF request.skip_moderation
  THEN [ v EXCEPT !.stages = Append(@, StageResult("text_moderation", "skipped", None,
                                                   Some("Skipped by request"))) ]
  ELSE IF v.short_circuited
  THEN [ v EXCEPT !.stages = Append(@, StageResult("text_moderation", "skipped", None,
                                                   Some("Previous stage failed"))) ]
  ELSE v

\* Stage3Runs without the short-circuit test
Stage3Runs_ignores_short_circuit(v, request) == ~request.skip_summary

\* if not short_circuited and not request.skip_summary
Stage3Runs(v, request) == ~v.short_circuited /\ ~request.skip_summary

\* summarizer.summarize returned
SummarizationCompleted(v) ==
  [ v EXCEPT !.summary_data = Some([ summary |-> "summary", style |-> "brief" ]),
             !.stages = Append(@, StageResult("summarization", "completed", None, None)) ]

\* SummarizationFailed that turns the verdict into error
SummarizationFailed_sets_error(v) ==
  [ v EXCEPT !.stages = Append(@, StageResult("summarization", "failed", Some("Exception"), None)),
             !.overall_verdict = "error" ]

\* except Exception
SummarizationFailed(v) ==
  [ v EXCEPT !.stages = Append(@, StageResult("summarization", "failed", Some("Exception"), None)) ]

\* SummarizationSkipped without the elif short_circuited branch
SummarizationSkipped_only_on_request(v, request) ==
  IF request.skip_summary
  THEN [ v EXCEPT !.stages = Append(@, StageResult("summarization", "skipped", None,
                                                   Some("Skipped by request"))) ]
  ELSE v

\* elif request.skip_summary ... elif short_circuited
SummarizationSkipped(v, request) ==
  IF request.skip_summary
  THEN [ v EXCEPT !.stages = Append(@, StageResult("summarization", "skipped", None,
                                                   Some("Skipped by request"))) ]
  ELSE IF v.short_circuited
  THEN [ v EXCEPT !.stages = Append(@, StageResult("summarization", "skipped", None,
                                                   v.short_circuit_reason)) ]
  ELSE v

\* return VideoPipelineResponse(...)
VideoPipelineResponse(v, file_url) ==
  [ pipeline |-> "video",
    file_url |-> file_url,
    verdict |-> v.overall_verdict,
    is_safe |-> v.is_safe,
    stages |-> v.stages,
    transcription |-> v.transcription_data,
    text_moderation |-> v.moderation_data,
    summary |-> v.summary_data,
    short_circuited |-> v.short_circuited,
    short_circuit_reason |-> v.short_circuit_reason ]

\* ------------------------------------- ImagePipelineService.process
\* the locals of process() as it starts
ImageLocals ==
  [ stages |-> << >>,
    moderation_data |-> None,
    overall_verdict |-> "safe",
    is_safe |-> TRUE,
    image_bytes |-> None,
    mime_type |-> "image/jpeg",
    stage_started_at |-> 0,
    stage_times |-> << >>,
    raised |-> None ]

\* the content-type header of the download response; None when it is missing
ContentTypeHeaders ==
  { None } \cup { Some(m) : m \in { "image/png", "image/gif", "IMAGE/GIF", "image/bmp" } }

\* resp.headers.get("content-type", "image/jpeg")
ContentTypeOf(header) == IF header = None THEN "image/jpeg" ELSE header[1]

\* mime_type.lower().startswith("image/gif")
IsGifMime(mime_type) == Lower(mime_type) = "image/gif"

DownloadExceptions == { "HTTPError", "Exception" }

\* a download that hands a GIF on as it came
DownloadCompleted_no_conversion(img, header) ==
  [ img EXCEPT !.image_bytes = Some("original"),
               !.mime_type = ContentTypeOf(header),
               !.stages = Append(@, StageResult("download", "completed", None, None)) ]

\* the download succeeded and, for a GIF, so did the conversion to PNG
DownloadCompleted(img, header) ==
  LET mime_type == ContentTypeOf(header)
      gif == IsGifMime(mime_type)
  IN  [ img EXCEPT !.image_bytes = Some(IF gif THEN "png_first_frame" ELSE "original"),
                   !.mime_type = IF gif THEN "image/png" ELSE mime_type,
                   !.stages = Append(@, StageResult("download", "completed", None, None)) ]

\* the conversion of a downloaded GIF raised
GifConversionFailed(img, header) ==
  [ img EXCEPT !.image_bytes = Some("original"),
               !.mime_type = ContentTypeOf(header),
               !.stages = Append(@, StageResult("download", "failed",
                                                Some("GIF conversion failed"), None)),
               !.overall_verdict = "error",
               !.is_safe = FALSE ]

\* DownloadFailed that leaves the verdict as it was
DownloadFailed_keeps_verdict(img, exc) ==
  [ img EXCEPT !.stages = Append(@, StageResult("download", "failed",
                                                Some(IF exc = "HTTPError" THEN "HTTP error"
                                                     ELSE "Exception"), None)) ]

\* except httpx.HTTPError / except Exception
DownloadFailed(img, exc) ==
  [ img EXCEPT !.stages = Append(@, StageResult("download", "failed",
                                                Some(IF exc = "HTTPError" THEN "HTTP error"
                                                     ELSE "Exception"), None)),
               !.overall_verdict = "error" ]

\* if image_bytes is not None
ImageStage2Runs(img) == img.image_bytes # None

\* ImageModerationCompleted that sets the verdict and leaves is_safe
ImageModerationCompleted_keeps_is_safe(img, mod_result) ==
  LET done == [ img EXCEPT !.moderation_data = Some([ is_safe |-> mod_result.is_safe,
                                                      categories |-> mod_result.categories,
                                                      level |-> mod_result.level ]),
                           !.stages = Append(@, StageResult("image_moderation", "completed",
                                                            None, None)) ]
  IN  IF ~mod_result.is_safe
      THEN [ done EXCEPT !.overall_verdict = "unsafe" ]
      ELSE done

\* gemini_moderate_image returned mod_result
ImageModerationCompleted(img, mod_result) ==
  LET done == [ img EXCEPT !.moderation_data = Some([ is_safe |-> mod_result.is_safe,
                                                      categories |-> mod_result.categories,
                                                      level |-> mod_result.level ]),
                           !.stages = Append(@, StageResult("image_moderation", "completed",
                                                            None, None)) ]
  IN  IF ~mod_result.is_safe
      THEN [ done EXCEPT !.overall_verdict = "unsafe", !.is_safe = FALSE ]
      ELSE done

\* ImageModerationFailed that does not fail safe
ImageModerationFailed_not_fail_safe(img, exc) ==
  [ img EXCEPT !.stages = Append(@, StageResult("image_moderation", "failed", Some(exc), None)),
               !.overall_verdict = "error" ]

\* except ImageModerationError / except Exception
ImageModerationFailed(img, exc) ==
  [ img EXCEPT !.stages = Append(@, StageResult("image_moderation", "failed", Some(exc), None)),
               !.overall_verdict = "error",
               !.is_safe = FALSE ]

\* else: the download failed
ImageModerationSkipped(img) ==
  [ img EXCEPT !.stages = Append(@, StageResult("image_moderation", "skipped", None,
                                                Some("Download failed"))) ]

\* return ImagePipelineResponse(...)
ImagePipelineResponse(img, file_url) ==
  [ pipeline |-> "image",
    file_url |-> file_url,
    verdict |-> img.overall_verdict,
    is_safe |-> img.is_safe,
    stages |-> img.stages,
    moderation |-> img.moderation_data ]

\* ------------------------------------------------- process_video, GIF
\* parsed.path.lower().endswith(".gif")
is_gif(file_url) == Lower(file_url.path_ext) = ".gif"

\* the VideoPipelineResponse process_video builds from the image result
GifVideoResponse(file_url, img_result) ==
  [ pipeline |-> "video",
    file_url |-> file_url,
    verdict |-> IF img_result.is_safe THEN "safe" ELSE "unsafe",
    is_safe |-> img_result.is_safe,
    stages |-> << StageResult("gif_image_moderation",
                              IF img_result.is_safe THEN "completed" ELSE "failed",
                              IF img_result.is_safe THEN None ELSE Some("Image failed moderation"),
                              None) >>,
    transcription |-> None,
    text_moderation |-> None,
    summary |-> None,
    short_circuited |-> TRUE,
    short_circuit_reason |-> Some("GIF content routed through image moderation") ]

\* ------------------------------------------------------- job registry
\* PipelineJobStatus(job_id=..., status="pending", pipeline_type="video", ...)
PipelineJobStatus(job_id) ==
  [ job_id |-> job_id, status |-> "pending", pipeline_type |-> "video",
    completed_at |-> None, result |-> None, error |-> None ]

\* _job_store[job.job_id] = job
store_job(store, job) ==
  [ j \in DOMAIN store \cup { job.job_id } |-> IF j = job.job_id THEN job ELSE store[j] ]

\* _job_store.get(job_id)
get_job_status(store, job_id) ==
  IF job_id \in DOMAIN store THEN Some(store[job_id]) ELSE None

\* a job id that no job was stored under
UnknownJobId == 0

\* a run_pipeline that does not record the start of the run
JobProcessing_stays_pending(j) == j

\* job.status = "processing"
JobProcessing(j) == [ j EXCEPT !.status = "processing" ]

\* a completion that stores the status but not the result
JobCompleted_without_result(j, now, result) ==
  [ j EXCEPT !.status = "completed", !.completed_at = Some(now) ]

\* a completion that does not stamp completed_at
JobCompleted_without_completed_at(j, now, result) ==
  [ j EXCEPT !.status = "completed", !.result = Some(result) ]

\* job.status = "completed"; job.completed_at = ...; job.result = result.model_dump()
JobCompleted(j, now, result) ==
  [ j EXCEPT !.status = "completed", !.completed_at = Some(now), !.result = Some(result) ]

\* an except branch that leaves the job as it was
JobFailed_stays_processing(j, now, e) == j

\* an except branch that does not store the message
JobFailed_without_error(j, now, e) ==
  [ j EXCEPT !.status = "failed", !.completed_at = Some(now) ]

\* job.status = "failed"; job.completed_at = ...; job.error = str(e)
JobFailed(j, now, e) ==
  [ j EXCEPT !.status = "failed", !.completed_at = Some(now), !.error = Some(str(e)) ]

\* a run_pipeline whose `job` is the job stored last, not the one of its call
ClosedOverJob_latest(store, job_id) == store[Cardinality(DOMAIN store)]

\* the `job` that the run_pipeline closure of one process_video_async call
\* holds: the object stored under the job_id of that call
ClosedOverJob(store, job_id) == store[job_id]

\* raise HTTPException(status_code=..., detail=f"{prefix}: {str(e)}")
HTTPException(status_code, prefix, detail) ==
  [ status_code |-> status_code, prefix |-> prefix, detail |-> detail ]

\* ================================================================ state
\* ------------------------------------- moderate_image, attempt by attempt
MaxPortCategories == 2

\* what client.models.generate_content raises: a remote 5xx (transient), or a
\* 4xx for a request the service rejects as malformed (not transient)
GenerateContentExceptions == { "ServerError", "ClientError" }

ContentTypes == SupportedMimeTypes \cup { "image/gif" }

\* an exception object: its class, its message text, and the values the
\* message is formatted with
RaisedError(type, text, attempts, cause) ==
  [ type |-> type, text |-> text, attempts |-> attempts, cause |-> cause ]

\* the text of response.text: a JSON object with is_flagged and categories,
\* text that is not JSON, or JSON that is not an object
ResponseTexts ==
  { [ body |-> "object", is_flagged |-> fl, categories |-> c ] :
      fl \in BOOLEAN, c \in SeqsUpTo(CategoryStrings, MaxPortCategories) }
  \cup { [ body |-> b, is_flagged |-> FALSE, categories |-> << >> ] :
           b \in { "invalid_json", "not_an_object" } }

\* no moderate_image call is being followed
NoImagePortCall ==
  [ pc |-> "idle", mime_type |-> "image/jpeg", level |-> "moderate", attempt |-> 0,
    invocations |-> 0, sleeps |-> << >>, last_exc |-> None, error |-> None,
    response |-> None, result |-> None ]

\* moderate_image up to the call of _call_gemini_with_retry: the MIME check,
\* then last_exc = None and the first value of the for loop
ModerateImageEnter(mime_type, level) ==
  IF mime_type \notin SupportedMimeTypes
  THEN [ NoImagePortCall EXCEPT !.pc = "raised", !.mime_type = mime_type, !.level = level,
           !.error = Some(RaisedError("ModerationError", "Unsupported image type", 0, mime_type)) ]
  ELSE [ NoImagePortCall EXCEPT !.pc = "calling", !.mime_type = mime_type, !.level = level,
           !.attempt = 1 ]

\* an except branch that sleeps the same time after every attempt
AttemptRaises_constant_backoff(p, e) ==
  IF p.attempt < max_retries
  THEN [ p EXCEPT !.invocations = @ + 1, !.last_exc = Some(e),
                  !.sleeps = Append(@, backoff_seconds),
                  !.attempt = @ + 1 ]
  ELSE [ p EXCEPT !.invocations = @ + 1, !.last_exc = Some(e), !.pc = "raised",
                  !.error = Some(RaisedError("ModerationError", "Gemini moderation failed after",
                                             max_retries, e)) ]

\* an except branch that gives up one attempt early
AttemptRaises_gives_up_early(p, e) ==
  IF p.attempt < max_retries - 1
  THEN [ p EXCEPT !.invocations = @ + 1, !.last_exc = Some(e),
                  !.sleeps = Append(@, backoff_seconds * p.attempt),
                  !.attempt = @ + 1 ]
  ELSE [ p EXCEPT !.invocations = @ + 1, !.last_exc = Some(e), !.pc = "raised",
                  !.error = Some(RaisedError("ModerationError", "Gemini moderation failed after",
                                             max_retries, e)) ]

\* one pass of the for loop in which generate_content raises e: the except
\* branch, and after the last attempt the raise that follows the loop
AttemptRaises(p, e) ==
  IF p.attempt < max_retries
  THEN [ p EXCEPT !.invocations = @ + 1, !.last_exc = Some(e),
                  !.sleeps = Append(@, backoff_seconds * p.attempt),
                  !.attempt = @ + 1 ]
  ELSE [ p EXCEPT !.invocations = @ + 1, !.last_exc = Some(e), !.pc = "raised",
                  !.error = Some(RaisedError("ModerationError", "Gemini moderation failed after",
                                             max_retries, e)) ]

\* one pass of the for loop in which generate_content returns
AttemptReturns(p, text) ==
  [ p EXCEPT !.invocations = @ + 1, !.pc = "parsing", !.response = Some(text) ]

\* a decision that leaves the classifier's own judgment out
ModerateImageDecide_threshold_only(p) ==
  LET data == p.response[1]
  IN  [ p EXCEPT !.pc = "returned",
          !.result = Some([ is_safe |-> _apply_threshold(data.categories, p.level),
                            categories |-> data.categories,
                            level |-> p.level ]) ]

\* moderate_image after the wrapper returned: json.loads, the threshold, the
\* returned dict
ModerateImageDecide(p) ==
  LET data == p.response[1]
  IN  IF data.body = "invalid_json"
      THEN [ p EXCEPT !.pc = "raised",
               !.error = Some(RaisedError("ModerationError", "Gemini returned invalid JSON", 0, "")) ]
      ELSE IF data.body = "not_an_object"
      THEN [ p EXCEPT !.pc = "raised",
               !.error = Some(RaisedError("AttributeError", "no attribute get", 0, "")) ]
      ELSE [ p EXCEPT !.pc = "returned",
               !.result = Some([ is_safe |-> _apply_threshold(data.categories, p.level)
                                             /\ ~data.is_flagged,
                                 categories |-> data.categories,
                                 level |-> p.level ]) ]

VARIABLES
  settings,       \* app.core.config.settings
  pc,             \* where the request being served is
  endpoint,       \* the endpoint that was called
  request,        \* Optional: the VideoPipelineRequest of the call
  image_request,  \* Optional: the ImagePipelineRequest given to the image pipeline
  v,              \* locals of VideoPipelineService.process
  img,            \* locals of ImagePipelineService.process
  calls,          \* the port invocations made so far, in order
  video_result,   \* Optional: what VideoPipelineService.process returned
  image_result,   \* Optional: what ImagePipelineService.process returned
  response,       \* Optional: what the endpoint returned to its caller
  job_store,      \* _job_store: job_id -> PipelineJobStatus
  job,            \* the job_id run_pipeline closes over (0: none)
  image_port,     \* the moderate_image call followed attempt by attempt
  last_poll,      \* Optional: what the last GET /pipeline/status/{job_id} answered
  http_error,     \* Optional: the HTTPException the endpoint raised
  clock,          \* what datetime.utcnow() returns
  tasks,          \* the run_pipeline tasks of concurrent submissions: job_id -> task
  text_port       \* the moderate_text call that is followed on its own

vars == << settings, pc, endpoint, request, image_request, v, img, calls,
           video_result, image_result, response, job_store, job, image_port,
           last_poll, http_error, clock, tasks, text_port >>

main_vars_but_job_store ==
  << settings, pc, endpoint, request, image_request, v, img, calls, video_result,
     image_result, response, job, last_poll, http_error, clock, text_port >>

main_vars_but_text_port ==
  << settings, pc, endpoint, request, image_request, v, img, calls, video_result,
     image_result, response, job_store, job, image_port, last_poll, http_error, clock, tasks >>

PortCall(port, mime_type, image_bytes) ==
  [ port |-> port, mime_type |-> mime_type, image_bytes |-> image_bytes ]

Init ==
  /\ settings \in Settings
  /\ pc = "idle"
  /\ endpoint = "none"
  /\ request = None
  /\ image_request = None
  /\ v = VideoLocals
  /\ img = ImageLocals
  /\ calls = << >>
  /\ video_result = None
  /\ image_result = None
  /\ response = None
  /\ job_store = << >>
  /\ job = 0
  /\ image_port = NoImagePortCall
  /\ last_poll = None
  /\ http_error = None
  /\ clock = 0
  /\ tasks = << >>
  /\ text_port = NoTextPortCall

\* ---------------------------------------------------------- endpoints
\* POST /process-video, up to the first await
process_video(req) ==
  /\ pc = "idle"
  /\ endpoint' = "process_video"
  /\ request' = Some(req)
  /\ IF is_gif(req.file_url)
     THEN /\ image_request' = Some([ file_url |-> req.file_url, safety_level |-> "moderate" ])
          /\ img' = StageStarts(ImageLocals, clock)
          /\ pc' = "i_download"
          /\ UNCHANGED v
     ELSE /\ v' = StageStarts(VideoLocals, clock)
          /\ pc' = "v_transcription"
          /\ UNCHANGED << image_request, img >>
  /\ UNCHANGED << settings, image_port, tasks, text_port, last_poll, http_error, clock, calls, video_result,
                  image_result, response, job_store, job >>

\* POST /process-image, up to the first await
process_image(req) ==
  /\ pc = "idle"
  /\ endpoint' = "process_image"
  /\ image_request' = Some(req)
  /\ img' = StageStarts(ImageLocals, clock)
  /\ pc' = "i_download"
  /\ UNCHANGED << settings, image_port, tasks, text_port, last_poll, http_error, clock, request, v, calls,
                  video_result, image_result, response, job_store, job >>

\* POST /process-video/async: store the job, create the task, return the job
process_video_async(req) ==
  /\ pc = "idle"
  /\ LET job_id == Cardinality(DOMAIN job_store) + 1
     IN  /\ job_store' = store_job(job_store, PipelineJobStatus(job_id))
         /\ job' = job_id
         /\ response' = Some(PipelineJobStatus(job_id))
  /\ endpoint' = "process_video_async"
  /\ request' = Some(req)
  /\ pc' = "task_created"
  /\ UNCHANGED << settings, image_port, tasks, text_port, last_poll, http_error, clock, image_request, v, img,
                  calls, video_result, image_result >>

\* run_pipeline, up to the first await of VideoPipelineService.process
run_pipeline ==
  /\ pc = "task_created"
  /\ job_store' = store_job(job_store, JobProcessing(job_store[job]))
  /\ v' = StageStarts(VideoLocals, clock)
  /\ pc' = "v_transcription"
  /\ UNCHANGED << settings, image_port, tasks, text_port, last_poll, http_error, clock, endpoint, request,
                  image_request, img, calls, video_result, image_result, response, job >>

\* GET /pipeline/status/{job_id}
get_pipeline_status(job_id) ==
  /\ LET found == get_job_status(job_store, job_id)
     IN  last_poll' = IF found = None
                      THEN Some([ status_code |-> 404, job |-> None ])
                      ELSE Some([ status_code |-> 200, job |-> found ])
  /\ UNCHANGED << settings, image_port, tasks, text_port, http_error, clock, pc, endpoint, request,
                  image_request, v, img, calls, video_result, image_result, response,
                  job_store, job >>

\* --------------------------------------------- the video pipeline stages
\* stage 1: await transcribe_from_url(...) returns or raises
VideoTranscription ==
  /\ pc = "v_transcription"
  /\ calls' = Append(calls, PortCall("transcription", "-", "-"))
  /\ \/ \E raw \in Texts : v' = StageRecorded(TranscriptionCompleted(v, Strip(raw)), clock)
     \/ \E exc \in TranscriptionExceptions : v' = StageRecorded(TranscriptionFailed(v, exc), clock)
  /\ pc' = NextPc(v', "v_moderation", "v_raised")
  /\ UNCHANGED << settings, image_port, tasks, text_port, last_poll, http_error, clock, endpoint, request,
                  image_request, img, video_result, image_result, response, job_store, job >>

\* stage 2: the text-safety call returns or raises, or the stage is skipped
VideoTextModeration ==
  /\ pc = "v_moderation"
  /\ IF Stage2Runs(v, request[1])
     THEN /\ calls' = Append(calls, PortCall("text_safety", "-", "-"))
          /\ \E how \in TextSafetyCalls :
               CASE how = "returns" ->
                      \E mod_result \in
                           TextModerationResults[v.transcription_data[1].text, settings] :
                        v' = StageRecorded(ModerationCompleted(v, mod_result), clock)
                 [] how = "ShieldGemmaError" -> v' = StageRecorded(ModerationShieldGemmaError(v), clock)
                 [] OTHER -> v' = StageRecorded(ModerationException(v), clock)
     ELSE /\ v' = StageRecorded(ModerationSkipped(v, request[1]), clock)
          /\ UNCHANGED calls
  /\ pc' = NextPc(v', "v_summarization", "v_raised")
  /\ UNCHANGED << settings, image_port, tasks, text_port, last_poll, http_error, clock, endpoint, request,
                  image_request, img, video_result, image_result, response, job_store, job >>

\* stage 3: the summarizer returns or raises, or the stage is skipped
VideoSummarization ==
  /\ pc = "v_summarization"
  /\ IF Stage3Runs(v, request[1])
     THEN /\ calls' = Append(calls, PortCall("summarizer", "-", "-"))
          /\ \/ v' = StageRecorded(SummarizationCompleted(v), clock)
             \/ v' = StageRecorded(SummarizationFailed(v), clock)
     ELSE /\ v' = StageRecorded(SummarizationSkipped(v, request[1]), clock)
          /\ UNCHANGED calls
  /\ pc' = NextPc(v', "v_respond", "v_raised")
  /\ UNCHANGED << settings, image_port, tasks, text_port, last_poll, http_error, clock, endpoint, request,
                  image_request, img, video_result, image_result, response, job_store, job >>

\* VideoPipelineService.process returns its response
VideoReturn ==
  /\ pc = "v_respond"
  /\ video_result' = Some(VideoPipelineResponse(v, request[1].file_url))
  /\ pc' = "v_returned"
  /\ UNCHANGED << settings, image_port, tasks, text_port, last_poll, http_error, clock, endpoint, request,
                  image_request, v, img, calls, image_result, response, job_store, job >>

\* the statements of process() that stand in no try block raise
VideoRaises ==
  /\ pc = "v_respond"
  /\ \E e \in InternalErrors : v' = Propagates(v, e)
  /\ pc' = "v_raised"
  /\ UNCHANGED << settings, image_port, tasks, text_port, last_poll, http_error, clock, endpoint, request,
                  image_request, img, calls, video_result, image_result, response,
                  job_store, job >>

\* process_video returns the result of the video pipeline
process_video_return ==
  /\ pc = "v_returned"
  /\ endpoint = "process_video"
  /\ response' = video_result
  /\ pc' = "done"
  /\ UNCHANGED << settings, image_port, tasks, text_port, last_poll, http_error, clock, endpoint, request,
                  image_request, v, img, calls, video_result, image_result, job_store, job >>

\* process_video turns an exception of the video pipeline into a 500
process_video_raises ==
  /\ pc = "v_raised"
  /\ endpoint = "process_video"
  /\ http_error' = Some(HTTPException(500, "Pipeline processing failed", str(v.raised[1])))
  /\ pc' = "done"
  /\ UNCHANGED << settings, image_port, tasks, text_port, last_poll, clock, endpoint, request, image_request,
                  v, img, calls, video_result, image_result, response, job_store, job >>

\* run_pipeline records the result in the job
run_pipeline_completed ==
  /\ pc = "v_returned"
  /\ endpoint = "process_video_async"
  /\ job_store' = store_job(job_store, JobCompleted(job_store[job], clock, video_result[1]))
  /\ pc' = "done"
  /\ UNCHANGED << settings, image_port, tasks, text_port, last_poll, http_error, clock, endpoint, request,
                  image_request, v, img, calls, video_result, image_result, response, job >>

\* run_pipeline records the exception in the job
run_pipeline_failed ==
  /\ pc = "v_raised"
  /\ endpoint = "process_video_async"
  /\ job_store' = store_job(job_store, JobFailed(job_store[job], clock, v.raised[1]))
  /\ pc' = "done"
  /\ UNCHANGED << settings, image_port, tasks, text_port, last_poll, http_error, clock, endpoint, request,
                  image_request, v, img, calls, video_result, image_result, response, job >>

\* --------------------------------------------- the image pipeline stages
\* stage 1: the download, and the conversion of a GIF to its first frame
ImageDownload ==
  /\ pc = "i_download"
  /\ \/ \E header \in ContentTypeHeaders :
          /\ img' = StageRecorded(DownloadCompleted(img, header), clock)
          /\ pc' = NextPc(img', "i_moderation", "i_raised")
          /\ UNCHANGED image_result
     \/ \E header \in ContentTypeHeaders :
          /\ IsGifMime(ContentTypeOf(header))
          /\ img' = StageRecorded(GifConversionFailed(img, header), clock)
          /\ image_result' = Some(ImagePipelineResponse(img', image_request[1].file_url))
          /\ pc' = "i_returned"
     \/ \E exc \in DownloadExceptions :
          /\ img' = StageRecorded(DownloadFailed(img, exc), clock)
          /\ pc' = NextPc(img', "i_moderation", "i_raised")
          /\ UNCHANGED image_result
  /\ UNCHANGED << settings, image_port, tasks, text_port, last_poll, http_error, clock, endpoint, request,
                  image_request, v, calls, video_result, response, job_store, job >>

\* stage 2: the image-safety call returns or raises, or the stage is skipped
ImageModeration ==
  /\ pc = "i_moderation"
  /\ IF ImageStage2Runs(img)
     THEN /\ calls' = Append(calls, PortCall("image_safety", img.mime_type, img.image_bytes[1]))
          /\ \/ \E mod_result \in
                       { moderate_image(img.mime_type, image_request[1].safety_level, gem) :
                           gem \in GeminiAnswers } :
                      img' = StageRecorded(
                               IF mod_result.outcome = "returns"
                               THEN ImageModerationCompleted(img, mod_result)
                               ELSE ImageModerationFailed(img, mod_result.outcome),
                               clock)
             \/ img' = StageRecorded(ImageModerationFailed(img, "Exception"), clock)
     ELSE /\ img' = StageRecorded(ImageModerationSkipped(img), clock)
          /\ UNCHANGED calls
  /\ pc' = NextPc(img', "i_respond", "i_raised")
  /\ UNCHANGED << settings, image_port, tasks, text_port, last_poll, http_error, clock, endpoint, request,
                  image_request, v, video_result, image_result, response, job_store, job >>

\* ImagePipelineService.process returns its response
ImageReturn ==
  /\ pc = "i_respond"
  /\ image_result' = Some(ImagePipelineResponse(img, image_request[1].file_url))
  /\ pc' = "i_returned"
  /\ UNCHANGED << settings, image_port, tasks, text_port, last_poll, http_error, clock, endpoint, request,
                  image_request, v, img, calls, video_result, response, job_store, job >>

\* the statements of process() that stand in no try block raise
ImageRaises ==
  /\ pc = "i_respond"
  /\ \E e \in InternalErrors : img' = Propagates(img, e)
  /\ pc' = "i_raised"
  /\ UNCHANGED << settings, image_port, tasks, text_port, last_poll, http_error, clock, endpoint, request,
                  image_request, v, calls, video_result, image_result, response,
                  job_store, job >>

\* process_image returns the result of the image pipeline
process_image_return ==
  /\ pc = "i_returned"
  /\ endpoint = "process_image"
  /\ response' = image_result
  /\ pc' = "done"
  /\ UNCHANGED << settings, image_port, tasks, text_port, last_poll, http_error, clock, endpoint, request,
                  image_request, v, img, calls, video_result, image_result, job_store, job >>

\* process_image turns an exception of the image pipeline into a 500
process_image_raises ==
  /\ pc = "i_raised"
  /\ endpoint = "process_image"
  /\ http_error' = Some(HTTPException(500, "Pipeline processing failed", str(img.raised[1])))
  /\ pc' = "done"
  /\ UNCHANGED << settings, image_port, tasks, text_port, last_poll, clock, endpoint, request, image_request,
                  v, img, calls, video_result, image_result, response, job_store, job >>

\* process_video wraps the image result of a GIF into a video response
process_video_gif_return ==
  /\ pc = "i_returned"
  /\ endpoint = "process_video"
  /\ response' = Some(GifVideoResponse(request[1].file_url, image_result[1]))
  /\ pc' = "done"
  /\ UNCHANGED << settings, image_port, tasks, text_port, last_poll, http_error, clock, endpoint, request,
                  image_request, v, img, calls, video_result, image_result, job_store, job >>

\* process_video turns an exception of the image pipeline of a GIF into a 500
process_video_gif_raises ==
  /\ pc = "i_raised"
  /\ endpoint = "process_video"
  /\ http_error' = Some(HTTPException(500, "GIF moderation failed", str(img.raised[1])))
  /\ pc' = "done"
  /\ UNCHANGED << settings, image_port, tasks, text_port, last_poll, clock, endpoint, request, image_request,
                  v, img, calls, video_result, image_result, response, job_store, job >>

\* the steps of one video pipeline run, whoever started it
VideoPipelineSteps ==
  \/ VideoTranscription
  \/ VideoTextModeration
  \/ VideoSummarization
  \/ VideoReturn
  \/ VideoRaises

\* the steps of one image pipeline run, whoever started it
ImagePipelineSteps ==
  \/ ImageDownload
  \/ ImageModeration
  \/ ImageReturn
  \/ ImageRaises

Next ==
  \/ \E req \in VideoPipelineRequest : process_video(req)
  \/ \E req \in ImagePipelineRequest : process_image(req)
  \/ \E req \in VideoPipelineRequest : process_video_async(req)
  \/ run_pipeline
  \/ VideoPipelineSteps
  \/ process_video_return
  \/ process_video_raises
  \/ run_pipeline_completed
  \/ run_pipeline_failed
  \/ ImagePipelineSteps
  \/ process_image_return
  \/ process_image_raises
  \/ process_video_gif_return
  \/ process_video_gif_raises

Spec == Init /\ [][Next]_vars

\* ----------------------------- the job registry with its polling clients
\* the background task: run_pipeline from its creation to its last store_job
RunPipelineSteps ==
  \/ run_pipeline
  \/ VideoPipelineSteps
  \/ run_pipeline_completed
  \/ run_pipeline_failed

JobNext ==
  \/ \E req \in VideoPipelineRequest : process_video_async(req)
  \/ RunPipelineSteps
  \/ \E job_id \in DOMAIN job_store \cup { UnknownJobId } : get_pipeline_status(job_id)

\* the service as deployed: the thresholds of config.py
JobInit == Init /\ settings = DefaultSettings

JobSpec == JobInit /\ [][JobNext]_vars

\* the event loop runs every ready task, and every awaited port call returns
\* or raises
JobSpecFair == JobInit /\ [][JobNext]_vars /\ WF_vars(RunPipelineSteps)

\* ------------------------------------ the pipelines with the time passing
MaxClock == 2

\* time passes while a stage is awaited
Tick ==
  /\ pc \in { "v_transcription", "v_moderation", "v_summarization", "i_download", "i_moderation" }
  /\ clock < MaxClock
  /\ clock' = clock + 1
  /\ UNCHANGED << settings, image_port, tasks, text_port, last_poll, http_error, pc, endpoint, request,
                  image_request, v, img, calls, video_result, image_result, response,
                  job_store, job >>

TimedNext ==
  \/ \E req \in VideoPipelineRequest : process_video(req)
  \/ \E req \in ImagePipelineRequest : process_image(req)
  \/ VideoPipelineSteps
  \/ ImagePipelineSteps
  \/ process_video_return
  \/ process_image_return
  \/ process_video_gif_return
  \/ Tick

TimedSpec == JobInit /\ [][TimedNext]_vars

\* ----------------------------------------- several jobs at the same time
MaxJobs == 2

\* the requests of the concurrent submissions: a video, with any skip flags
ConcurrentRequests ==
  { r \in VideoPipelineRequest : r.file_url = [ path_ext |-> ".mp4", query_ext |-> "" ] }

\* what the ports answer to the concurrent runs
ConcurrentTexts == { << "h" >> }

ConcurrentGenerations ==
  { [ i \in 1..NumCategories |-> [ kind |-> "text", first |-> f, ind |-> NoIndicators ] ] :
      f \in { "yes", "no" } }

\* the task that asyncio.create_task(run_pipeline()) makes: its closure holds
\* the job and the request of the call, its frame the locals of process()
Task(job_id, req) ==
  [ job_id |-> job_id, request |-> req, pc |-> "created", v |-> VideoLocals, runs |-> 0 ]

\* POST /process-video/async while other jobs run
create_task(req) ==
  /\ Cardinality(DOMAIN job_store) < MaxJobs
  /\ LET job_id == Cardinality(DOMAIN job_store) + 1
     IN  /\ job_store' = store_job(job_store, PipelineJobStatus(job_id))
         /\ tasks' = [ j \in DOMAIN tasks \cup { job_id } |->
                         IF j = job_id THEN Task(job_id, req) ELSE tasks[j] ]
  /\ UNCHANGED << main_vars_but_job_store, image_port >>

\* run_pipeline of task t, up to the first await of process()
task_run_pipeline(t) ==
  /\ tasks[t].pc = "created"
  /\ job_store' = store_job(job_store, JobProcessing(ClosedOverJob(job_store, tasks[t].job_id)))
  /\ tasks' = [ tasks EXCEPT ![t].pc = "v_transcription",
                             ![t].v = StageStarts(VideoLocals, clock),
                             ![t].runs = @ + 1 ]
  /\ UNCHANGED << main_vars_but_job_store, image_port >>

\* stage 1 of the process() that task t awaits
task_transcription(t) ==
  /\ tasks[t].pc = "v_transcription"
  /\ \/ \E text \in ConcurrentTexts :
          tasks' = [ tasks EXCEPT ![t].v = StageRecorded(TranscriptionCompleted(@, text), clock),
                                  ![t].pc = "v_moderation" ]
     \/ tasks' = [ tasks EXCEPT ![t].v = StageRecorded(TranscriptionFailed(@, "DownloadError"),
                                                       clock),
                                ![t].pc = "v_moderation" ]
  /\ UNCHANGED << main_vars_but_job_store, image_port, job_store >>

\* stage 2 of the process() that task t awaits
task_text_moderation(t) ==
  /\ tasks[t].pc = "v_moderation"
  /\ LET tv == tasks[t].v
         req == tasks[t].request
     IN  IF Stage2Runs(tv, req)
         THEN \/ \E gens \in ConcurrentGenerations :
                   tasks' = [ tasks EXCEPT
                                ![t].v = StageRecorded(
                                           ModerationCompleted(
                                             tv, moderate_text(tv.transcription_data[1].text,
                                                               gens, settings)),
                                           clock),
                                ![t].pc = "v_summarization" ]
              \/ tasks' = [ tasks EXCEPT
                              ![t].v = StageRecorded(ModerationShieldGemmaError(tv), clock),
                              ![t].pc = "v_summarization" ]
         ELSE tasks' = [ tasks EXCEPT
                           ![t].v = StageRecorded(ModerationSkipped(tv, req), clock),
                           ![t].pc = "v_summarization" ]
  /\ UNCHANGED << main_vars_but_job_store, image_port, job_store >>

\* stage 3 of the process() that task t awaits
task_summarization(t) ==
  /\ tasks[t].pc = "v_summarization"
  /\ LET tv == tasks[t].v
         req == tasks[t].request
     IN  IF Stage3Runs(tv, req)
         THEN \/ tasks' = [ tasks EXCEPT
                              ![t].v = StageRecorded(SummarizationCompleted(tv), clock),
                              ![t].pc = "v_respond" ]
              \/ tasks' = [ tasks EXCEPT
                              ![t].v = StageRecorded(SummarizationFailed(tv), clock),
                              ![t].pc = "v_respond" ]
         ELSE tasks' = [ tasks EXCEPT
                           ![t].v = StageRecorded(SummarizationSkipped(tv, req), clock),
                           ![t].pc = "v_respond" ]
  /\ UNCHANGED << main_vars_but_job_store, image_port, job_store >>

\* process() returns to run_pipeline of task t, which records the result
task_completed(t) ==
  /\ tasks[t].pc = "v_respond"
  /\ job_store' = store_job(job_store,
                            JobCompleted(ClosedOverJob(job_store, tasks[t].job_id), clock,
                                         VideoPipelineResponse(tasks[t].v,
                                                               tasks[t].request.file_url)))
  /\ tasks' = [ tasks EXCEPT ![t].pc = "done" ]
  /\ UNCHANGED << main_vars_but_job_store, image_port >>

\* process() raises to run_pipeline of task t, which records the exception
task_failed(t) ==
  /\ tasks[t].pc = "v_respond"
  /\ \E e \in InternalErrors :
       /\ job_store' = store_job(job_store,
                                 JobFailed(ClosedOverJob(job_store, tasks[t].job_id), clock, e))
       /\ tasks' = [ tasks EXCEPT ![t].pc = "done", ![t].v = Propagates(@, e) ]
  /\ UNCHANGED << main_vars_but_job_store, image_port >>

ConcurrentNext ==
  \/ \E req \in ConcurrentRequests : create_task(req)
  \/ \E t \in DOMAIN tasks :
       \/ task_run_pipeline(t)
       \/ task_transcription(t)
       \/ task_text_moderation(t)
       \/ task_summarization(t)
       \/ task_completed(t)
       \/ task_failed(t)

ConcurrentSpec == JobInit /\ [][ConcurrentNext]_vars

\* ------------------------------------- the text-safety port on its own
\* ShieldGemmaService.moderate_text(text) is called; each _analyze_category
\* call meets one of Generations
moderate_text_call(text, gens) ==
  /\ text_port.pc = "idle"
  /\ text_port' = [ pc |-> "returned",
                    text |-> text,
                    categories |-> category_results(gens),
                    result |-> moderate_text(text, gens, settings),
                    v |-> VideoLocals ]
  /\ UNCHANGED main_vars_but_text_port

\* stage 2 of VideoPipelineService.process takes the result of the call
text_moderation_stage ==
  /\ text_port.pc = "returned"
  /\ Strip(text_port.text) # << >>
  /\ text_port' = [ text_port EXCEPT
                      !.pc = "staged",
                      !.v = ModerationCompleted(TranscriptionCompleted(VideoLocals, text_port.text),
                                                text_port.result) ]
  /\ UNCHANGED main_vars_but_text_port

ModerateNext ==
  \/ /\ text_port.pc = "idle"
     /\ \E text \in Texts, gens \in [ 1..NumCategories -> Generations ] :
          moderate_text_call(text, gens)
  \/ text_moderation_stage

ModerateSpec == Init /\ [][ModerateNext]_vars

\* ------------------------------ the image-safety port, attempt by attempt
main_vars == << settings, pc, endpoint, request, image_request, v, img, calls,
                video_result, image_result, response, job_store, job,
                last_poll, http_error, clock, tasks, text_port >>

PortInit ==
  /\ settings = DefaultSettings
  /\ pc = "idle"
  /\ endpoint = "none"
  /\ request = None
  /\ image_request = None
  /\ v = VideoLocals
  /\ img = ImageLocals
  /\ calls = << >>
  /\ video_result = None
  /\ image_result = None
  /\ response = None
  /\ job_store = << >>
  /\ job = 0
  /\ image_port = NoImagePortCall
  /\ last_poll = None
  /\ http_error = None
  /\ clock = 0
  /\ tasks = << >>
  /\ text_port = NoTextPortCall

moderate_image_enter(mime_type, level) ==
  /\ image_port.pc = "idle"
  /\ image_port' = ModerateImageEnter(mime_type, level)
  /\ UNCHANGED main_vars

generate_content_raises(e) ==
  /\ image_port.pc = "calling"
  /\ image_port.attempt \in 1..max_retries
  /\ image_port' = AttemptRaises(image_port, e)
  /\ UNCHANGED main_vars

generate_content_returns(text) ==
  /\ image_port.pc = "calling"
  /\ image_port.attempt \in 1..max_retries
  /\ image_port' = AttemptReturns(image_port, text)
  /\ UNCHANGED main_vars

moderate_image_decide ==
  /\ image_port.pc = "parsing"
  /\ image_port' = ModerateImageDecide(image_port)
  /\ UNCHANGED main_vars

PortNext ==
  \/ \E m \in ContentTypes, level \in SafetyLevel : moderate_image_enter(m, level)
  \/ \E e \in GenerateContentExceptions : generate_content_raises(e)
  \/ \E text \in ResponseTexts : generate_content_returns(text)
  \/ moderate_image_decide

PortSpec == PortInit /\ [][PortNext]_vars

\* ======================================================= properties
\* the status recorded for the stage called `name`, "absent" when none is
StageStatus(stages, name) ==
  IF \E i \in DOMAIN stages : stages[i].stage = name
  THEN stages[CHOOSE i \in DOMAIN stages : stages[i].stage = name].status
  ELSE "absent"

StageNames(stages) == [ i \in DOMAIN stages |-> stages[i].stage ]

Called(port) == \E i \in DOMAIN calls : calls[i].port = port

\* the transcription stage of result r failed, or returned blank text
TranscriptionFailedOrEmpty(r) ==
  \/ StageStatus(r.stages, "transcription") = "failed"
  \/ /\ StageStatus(r.stages, "transcription") = "completed"
     /\ Strip(r.transcription[1].text) = << >>

\* the transcription stage of result r returned text that is not blank
TranscriptionNonEmpty(r) ==
  /\ StageStatus(r.stages, "transcription") = "completed"
  /\ Strip(r.transcription[1].text) # << >>

\* C1: in a video run whose transcription failed or returned blank text, the
\* text_moderation and summarization stages are skipped, neither the
\* text-safety port nor the summarizer was invoked, the verdict is error and
\* the run is short-circuited, whatever the skip flags are.
C1_TranscriptionFailureSkipsRest ==
  video_result # None =>
    LET r == video_result[1]
    IN  TranscriptionFailedOrEmpty(r) =>
          /\ StageStatus(r.stages, "text_moderation") = "skipped"
          /\ StageStatus(r.stages, "summarization") = "skipped"
          /\ ~Called("text_safety")
          /\ ~Called("summarizer")
          /\ r.verdict = "error"
          /\ r.short_circuited

C1_Witness ==
  /\ video_result # None
  /\ video_result[1].stages[1] =
       StageResult("transcription", "failed", Some("Unsupported media"), None)
  /\ ~request[1].skip_moderation
  /\ ~request[1].skip_summary
  /\ StageStatus(video_result[1].stages, "summarization") = "skipped"

\* C2: in a video run whose text-safety stage reported the transcript not
\* safe, the summarization stage is skipped, the summarizer was not invoked,
\* the verdict is unsafe, is_safe is false and the result has no summary.
C2_UnsafeSkipsSummary ==
  video_result # None =>
    LET r == video_result[1]
    IN  ( /\ StageStatus(r.stages, "text_moderation") = "completed"
          /\ ~r.text_moderation[1].is_safe ) =>
          /\ StageStatus(r.stages, "summarization") = "skipped"
          /\ ~Called("summarizer")
          /\ r.verdict = "unsafe"
          /\ ~r.is_safe
          /\ r.summary = None

C2_Witness ==
  /\ video_result # None
  /\ StageStatus(video_result[1].stages, "text_moderation") = "completed"
  /\ video_result[1].text_moderation[1].verdict = "unsafe"
  /\ ~request[1].skip_summary
  /\ video_result[1].verdict = "unsafe"

\* C3: no video result has a failed text_moderation stage together with
\* is_safe = true and verdict = safe.
C3_FailedModerationNeverSafe ==
  video_result # None =>
    LET r == video_result[1]
    IN  ~ ( /\ StageStatus(r.stages, "text_moderation") = "failed"
            /\ r.is_safe
            /\ r.verdict = "safe" )

\* C4: in a video run whose transcription returned text that is not blank
\* and whose text-safety call raised, the run is not short-circuited, the
\* summarizer is invoked unless skip_summary is set, and the verdict is not
\* unsafe.
C4_ModerationErrorDoesNotShortCircuit ==
  video_result # None =>
    LET r == video_result[1]
    IN  ( /\ TranscriptionNonEmpty(r)
          /\ StageStatus(r.stages, "text_moderation") = "failed" ) =>
          /\ ~r.short_circuited
          /\ ~request[1].skip_summary =>
               /\ StageStatus(r.stages, "summarization") \in { "completed", "failed" }
               /\ Called("summarizer")
          /\ r.verdict # "unsafe"

C4_Witness ==
  /\ video_result # None
  /\ TranscriptionNonEmpty(video_result[1])
  /\ video_result[1].stages[2] =
       StageResult("text_moderation", "failed", Some("ShieldGemmaError"), None)
  /\ StageStatus(video_result[1].stages, "summarization") = "completed"
  /\ video_result[1].summary # None

\* the text-safety stage of result r completed and the port's verdict was vd
PortReturnedVerdict(r, vd) ==
  /\ StageStatus(r.stages, "text_moderation") = "completed"
  /\ r.text_moderation[1].verdict = vd

\* C5 as stated: the verdict of a video run is error exactly when the
\* transcription raised or returned blank text, unsafe exactly when the
\* text-safety port returned the verdict 'unsafe', and safe otherwise, also
\* when the port returned 'warning'.
C5_VerdictUnsafeOnlyOnUnsafeVerdict ==
  video_result # None =>
    LET r == video_result[1]
    IN  /\ (r.verdict = "error") <=> TranscriptionFailedOrEmpty(r)
        /\ (r.verdict = "unsafe") <=> PortReturnedVerdict(r, "unsafe")
        /\ (r.verdict = "safe") <=>
             (~TranscriptionFailedOrEmpty(r) /\ ~PortReturnedVerdict(r, "unsafe"))

\* C5, amended: the verdict of a video run is error exactly when the
\* transcription raised or returned blank text, unsafe exactly when the
\* text-safety port returned the verdict 'unsafe' or 'warning' (its is_safe is
\* false for both), and safe otherwise: when the port returned 'safe', when
\* the call raised and when the stage was skipped by request.
C5_VerdictFromStages12 ==
  video_result # None =>
    LET r == video_result[1]
        flagged == PortReturnedVerdict(r, "unsafe") \/ PortReturnedVerdict(r, "warning")
    IN  /\ (r.verdict = "error") <=> TranscriptionFailedOrEmpty(r)
        /\ (r.verdict = "unsafe") <=> flagged
        /\ (r.verdict = "safe") <=> (~TranscriptionFailedOrEmpty(r) /\ ~flagged)
        /\ StageStatus(r.stages, "text_moderation") = "completed" =>
             (r.text_moderation[1].is_safe <=> r.text_moderation[1].verdict = "safe")

C5_Witness ==
  /\ video_result # None
  /\ PortReturnedVerdict(video_result[1], "warning")
  /\ video_result[1].verdict = "unsafe"
  /\ Called("text_safety")

\* C6: a step in which the summarizer raises appends the failed
\* summarization stage with its error and leaves the verdict, is_safe,
\* short_circuited, the transcription data and the moderation data as they
\* were, and the result then returned carries exactly these values.
C6_SummarizationFailureFrame ==
  [][ /\ ( /\ pc = "v_summarization"
           /\ pc' = "v_respond"
           /\ StageStatus(v'.stages, "summarization") = "failed" ) =>
           /\ v'.overall_verdict = v.overall_verdict
           /\ v'.is_safe = v.is_safe
           /\ v'.short_circuited = v.short_circuited
           /\ v'.transcription_data = v.transcription_data
           /\ v'.moderation_data = v.moderation_data
           /\ v'.summary_data = None
           /\ v'.stages = Append(v.stages,
                StageResult("summarization", "failed", Some("Exception"), None))
      /\ ( pc = "v_respond" /\ pc' = "v_returned" ) =>
           /\ video_result'[1].verdict = v.overall_verdict
           /\ video_result'[1].is_safe = v.is_safe
           /\ video_result'[1].short_circuited = v.short_circuited
           /\ video_result'[1].transcription = v.transcription_data
           /\ video_result'[1].text_moderation = v.moderation_data
           /\ video_result'[1].stages = v.stages
    ]_vars

C6_Witness ==
  /\ video_result # None
  /\ video_result[1].stages[3] =
       StageResult("summarization", "failed", Some("Exception"), None)
  /\ StageStatus(video_result[1].stages, "text_moderation") = "completed"
  /\ video_result[1].verdict = "safe"
  /\ video_result[1].is_safe
  /\ video_result[1].summary = None

\* C7: for a video request whose file_url path ends in .gif the transcription
\* port is never invoked and the request goes to the image pipeline, under
\* process_video and under process_video_async alike.
C7_GifNeverTranscribed ==
  ( request # None /\ is_gif(request[1].file_url) ) =>
    /\ ~Called("transcription")
    /\ pc = "done" => image_result # None

\* C8: every result of the video pipeline, of the image pipeline and of the
\* GIF route of process_video has is_safe = false when its verdict is unsafe.
C8_UnsafeImpliesNotSafe ==
  /\ video_result # None => ( video_result[1].verdict = "unsafe" => ~video_result[1].is_safe )
  /\ image_result # None => ( image_result[1].verdict = "unsafe" => ~image_result[1].is_safe )
  /\ ( response # None /\ endpoint = "process_video" ) =>
       ( response[1].verdict = "unsafe" => ~response[1].is_safe )

C8_Witness ==
  /\ response # None
  /\ endpoint = "process_video"
  /\ is_gif(request[1].file_url)
  /\ response[1].verdict = "unsafe"
  /\ image_result[1].verdict = "unsafe"
  /\ ~response[1].is_safe

HasSkippedStage(r) == \E i \in DOMAIN r.stages : r.stages[i].status = "skipped"

\* C9 as stated: every video result returned by VideoPipelineService.process
\* or by the GIF route of process_video has a skipped stage when it is
\* short-circuited.
C9_ShortCircuitedHasSkippedStage ==
  /\ video_result # None => ( video_result[1].short_circuited => HasSkippedStage(video_result[1]) )
  /\ ( response # None /\ endpoint = "process_video" ) =>
       ( response[1].short_circuited => HasSkippedStage(response[1]) )

\* C9, amended: every result returned by VideoPipelineService.process has a
\* skipped stage when it is short-circuited; the result of the GIF route of
\* process_video is short-circuited and holds the single stage
\* gif_image_moderation, completed or failed and never skipped.
C9_ShortCircuitedHasSkippedInProcess ==
  /\ video_result # None => ( video_result[1].short_circuited => HasSkippedStage(video_result[1]) )
  /\ ( response # None /\ endpoint = "process_video" /\ is_gif(request[1].file_url) ) =>
       /\ response[1].short_circuited
       /\ StageNames(response[1].stages) = << "gif_image_moderation" >>
       /\ response[1].stages[1].status \in { "completed", "failed" }

C9_Witness ==
  /\ video_result # None
  /\ video_result[1].short_circuited
  /\ StageStatus(video_result[1].stages, "text_moderation") = "completed"
  /\ StageStatus(video_result[1].stages, "summarization") = "skipped"
  /\ ~request[1].skip_summary

\* C10: in an image run whose download succeeded the image-safety port is
\* called; when the call returns, the verdict is unsafe and is_safe false if
\* it reports the image unsafe, and safe and true otherwise; when the call
\* raises, as it does for a MIME type that is not supported, the verdict is
\* error and is_safe false.
C10_ImageVerdict ==
  image_result # None =>
    LET r == image_result[1]
    IN  StageStatus(r.stages, "download") = "completed" =>
          /\ Called("image_safety")
          /\ StageStatus(r.stages, "image_moderation") \in { "completed", "failed" }
          /\ StageStatus(r.stages, "image_moderation") = "completed" =>
               IF r.moderation[1].is_safe
               THEN r.verdict = "safe" /\ r.is_safe
               ELSE r.verdict = "unsafe" /\ ~r.is_safe
          /\ StageStatus(r.stages, "image_moderation") = "failed" =>
               ( r.verdict = "error" /\ ~r.is_safe /\ r.moderation = None )
          /\ img.mime_type \notin SupportedMimeTypes =>
               StageStatus(r.stages, "image_moderation") = "failed"

C10_Witness ==
  /\ image_result # None
  /\ StageStatus(image_result[1].stages, "download") = "completed"
  /\ img.mime_type = "image/bmp"
  /\ image_result[1].stages[2] =
       StageResult("image_moderation", "failed", Some("ModerationError"), None)
  /\ image_result[1].verdict = "error"
  /\ ~image_result[1].is_safe

\* C11: in an image run whose download failed before any bytes were
\* obtained, the verdict is error, the download stage is failed, the
\* image_moderation stage is skipped with the reason 'Download failed' and the
\* image-safety port was not invoked.
C11_DownloadFailureSkipsModeration ==
  image_result # None =>
    LET r == image_result[1]
    IN  ( StageStatus(r.stages, "download") = "failed" /\ img.image_bytes = None ) =>
          /\ r.verdict = "error"
          /\ Len(r.stages) = 2
          /\ r.stages[1].stage = "download"
          /\ r.stages[2] = StageResult("image_moderation", "skipped", None,
                                       Some("Download failed"))
          /\ r.moderation = None
          /\ ~Called("image_safety")

C11_Witness ==
  /\ image_result # None
  /\ image_result[1].stages[1] = StageResult("download", "failed", Some("HTTP error"), None)
  /\ img.image_bytes = None
  /\ StageStatus(image_result[1].stages, "image_moderation") = "skipped"
  /\ image_result[1].verdict = "error"

\* ------------------------------------------------ the image-safety port
SeverityOrder == << "none", "mild", "moderate", "severe" >>

SeverityRank(severity) == CHOOSE i \in DOMAIN SeverityOrder : SeverityOrder[i] = severity

Cutoff(level) ==
  CASE level = "strict" -> "none"
    [] level = "moderate" -> "mild"
    [] level = "lenient" -> "moderate"

\* every entry is '<name>:<severity>' with one of the four severities
WellFormedCategories(categories) ==
  \A i \in DOMAIN categories :
    /\ categories[i].colon
    /\ \E j \in DOMAIN SeverityOrder : SeverityOrder[j] = categories[i].severity

ViolenceCategory(severity) == [ name |-> "violence", colon |-> TRUE, severity |-> severity ]

\* C12: for every list of '<name>:<severity>' categories, every strictness
\* level and every is_flagged, the is_safe that moderate_image returns is
\* (no category's severity is above the cutoff of the level) and not
\* is_flagged, with none < mild < moderate < severe and the cutoffs strict =
\* none, moderate = mild, lenient = moderate; ['violence:severe'] is unsafe at
\* strict and at lenient, ['violence:mild'] unflagged is safe at lenient.
C12_IsSafeIsThresholdAndNotFlagged ==
  image_port.pc = "returned" =>
    LET data == image_port.response[1]
        out == image_port.result[1]
    IN  /\ WellFormedCategories(data.categories) =>
             out.is_safe =
               ( /\ \A i \in DOMAIN data.categories :
                      SeverityRank(data.categories[i].severity)
                        <= SeverityRank(Cutoff(image_port.level))
                 /\ ~data.is_flagged )
        /\ ( data.categories = << ViolenceCategory("severe") >>
             /\ image_port.level \in { "strict", "lenient" } ) => ~out.is_safe
        /\ ( data.categories = << ViolenceCategory("mild") >>
             /\ ~data.is_flagged /\ image_port.level = "lenient" ) => out.is_safe

C12_Witness ==
  /\ image_port.pc = "returned"
  /\ image_port.response[1].categories = << ViolenceCategory("mild"), ViolenceCategory("moderate") >>
  /\ ~image_port.response[1].is_flagged
  /\ image_port.level = "lenient"
  /\ image_port.result[1].is_safe

\* the wrapper has raised its error (not the MIME check, not the JSON parse)
WrapperRaised(p) ==
  /\ p.pc = "raised"
  /\ p.error[1].text = "Gemini moderation failed after"

\* C13: when generate_content fails on every attempt, _call_gemini_with_retry
\* has invoked it exactly max_retries times when it raises ModerationError,
\* the error carries the attempt count and the last underlying exception, and
\* no invocation follows the raise.
C13_RaisesAfterMaxRetries ==
  /\ [] ( /\ image_port.pc = "calling" =>
               /\ image_port.invocations = image_port.attempt - 1
               /\ image_port.invocations < max_retries
          /\ WrapperRaised(image_port) =>
               /\ image_port.invocations = max_retries
               /\ image_port.last_exc # None
               /\ image_port.error[1] = RaisedError("ModerationError",
                                                    "Gemini moderation failed after",
                                                    max_retries, image_port.last_exc[1]) )
  /\ [][ image_port.pc = "raised" => image_port' = image_port ]_vars

C13_Witness ==
  /\ WrapperRaised(image_port)
  /\ image_port.invocations = 3
  /\ image_port.error[1].attempts = 3
  /\ image_port.error[1].cause = "ServerError"

\* C14: the retry wrapper does not retry a non-transient input error: once
\* generate_content has failed with a 4xx for a malformed request, the wrapper
\* has failed, and no further attempt is made or pending.
C14_NoRetryOfInputError ==
  image_port.last_exc = Some("ClientError") => image_port.pc = "raised"

\* --------------------------------------------------- the job registry
\* the record of the submitted job, as the store holds it
TheJob == job_store[job]

Terminal(j) == j.status \in { "completed", "failed" }

\* the orchestrator has been invoked by run_pipeline and run_pipeline has not
\* yet gone on after it
OrchestratorRunning ==
  /\ endpoint = "process_video_async"
  /\ pc \in { "v_transcription", "v_moderation", "v_summarization", "v_respond" }

\* the job record a poll has answered with
Polled == last_poll[1].job[1]

PollAnswered == last_poll # None /\ last_poll[1].job # None

\* C15: the statuses a job goes through are a prefix of pending, processing,
\* then one of completed and failed: it is created pending, it is processing
\* while the orchestrator runs, it is completed or failed only after the
\* orchestrator returned or raised, its status never goes back, and no poll
\* observes completed before the orchestrator has returned.
C15_JobStatusSequence ==
  /\ [] ( job # 0 =>
            /\ TheJob.status \in { "pending", "processing", "completed", "failed" }
            /\ ( TheJob.status = "pending" ) <=> ( pc = "task_created" )
            /\ OrchestratorRunning => TheJob.status = "processing"
            /\ Called("transcription") => TheJob.status # "pending"
            /\ TheJob.status = "completed" => video_result # None
            /\ TheJob.status = "failed" => v.raised # None
            /\ ( PollAnswered /\ Polled.status = "completed" ) => video_result # None )
  /\ [][ job = 0 /\ job' # 0 => job_store'[job'].status = "pending" ]_vars
  /\ [][ job # 0 =>
           \/ job_store'[job].status = TheJob.status
           \/ << TheJob.status, job_store'[job].status >> \in
                { << "pending", "processing" >>, << "processing", "completed" >>,
                  << "processing", "failed" >> } ]_vars

C15_Witness ==
  /\ job # 0
  /\ TheJob.status = "completed"
  /\ PollAnswered
  /\ Polled.status = "processing"
  /\ Called("transcription")

\* C16: with the background task scheduled fairly and every port call
\* returning or raising, every submitted job reaches completed or failed;
\* from then on its record does not change, and every poll of it answers with
\* that record: the same status, result, error and completed_at.
C16_JobTerminatesAndStays ==
  /\ ( job # 0 ) ~> ( job # 0 /\ Terminal(TheJob) )
  /\ [][ ( job # 0 /\ Terminal(TheJob) ) =>
           /\ job_store' = job_store
           /\ ( last_poll' # last_poll /\ last_poll'[1].job # None ) =>
                last_poll'[1].job[1] = TheJob ]_vars

C16_Witness ==
  /\ job # 0
  /\ TheJob.status = "completed"
  /\ TheJob.result # None
  /\ PollAnswered
  /\ Polled = TheJob

\* C17: when the orchestrator that a background job invoked raises, the job
\* becomes failed with str() of the exception in error; no job stays
\* processing after its orchestrator call ended by raising.
C17_RaisingOrchestratorFailsJob ==
  /\ [] ( ( endpoint = "process_video_async" /\ v.raised # None /\ pc = "done" ) =>
            /\ TheJob.status = "failed"
            /\ TheJob.error = Some(v.raised[1].message)
            /\ TheJob.completed_at # None
            /\ TheJob.result = None )
  /\ ( endpoint = "process_video_async" /\ pc = "v_raised" ) ~> ( job # 0 /\ TheJob.status = "failed" )

C17_Witness ==
  /\ endpoint = "process_video_async"
  /\ pc = "done"
  /\ v.raised # None
  /\ v.raised[1].type = "RecursionError"
  /\ TheJob.status = "failed"
  /\ TheJob.error = Some("maximum recursion depth exceeded")

\* C18: whatever the interleaving of the background task with polls, a poll
\* never answers with a half-updated job record: completed comes with result
\* and completed_at and without error, failed with error and completed_at and
\* without result, pending and processing with none of the three.
C18_PollSeesWholeRecord ==
  PollAnswered =>
    /\ Polled.status = "completed" =>
         ( Polled.result # None /\ Polled.completed_at # None /\ Polled.error = None )
    /\ Polled.status = "failed" =>
         ( Polled.error # None /\ Polled.completed_at # None /\ Polled.result = None )
    /\ Polled.status \in { "pending", "processing" } =>
         ( Polled.result = None /\ Polled.completed_at = None /\ Polled.error = None )

C18_Witness ==
  /\ PollAnswered
  /\ Polled.status = "completed"
  /\ Polled.result # None
  /\ Polled.completed_at # None

\* ------------------------------------------- failures of the ports
FailedStages(stages) == { i \in DOMAIN stages : stages[i].status = "failed" }

\* C19: whatever ports fail (transcription, text safety, summarization, the
\* image download, the GIF conversion, image safety), the process() of the
\* video and of the image pipeline returns a complete result and no port
\* exception leaves it; a fatal failure shows as verdict = error with the
\* error of its stage filled in.
C19_PortFailuresAreReturned ==
  /\ v.raised # None => v.raised[1] \in InternalErrors
  /\ img.raised # None => img.raised[1] \in InternalErrors
  /\ http_error # None => ( v.raised # None \/ img.raised # None )
  /\ ( pc \in { "v_returned", "done" } /\ Called("transcription") /\ v.raised = None ) =>
       video_result # None
  /\ ( pc \in { "i_returned", "done" } /\ image_request # None /\ img.raised = None ) =>
       image_result # None
  /\ video_result # None =>
       LET r == video_result[1]
       IN  /\ StageNames(r.stages) = << "transcription", "text_moderation", "summarization" >>
           /\ \A i \in FailedStages(r.stages) : r.stages[i].error # None
           /\ StageStatus(r.stages, "transcription") = "failed" => r.verdict = "error"
  /\ image_result # None =>
       LET r == image_result[1]
       IN  /\ r.stages # << >>
           /\ r.stages[1].stage = "download"
           /\ \A i \in FailedStages(r.stages) : r.stages[i].error # None
           /\ FailedStages(r.stages) # { } => r.verdict = "error"

C19_Witness ==
  /\ video_result # None
  /\ StageStatus(video_result[1].stages, "transcription") = "completed"
  /\ StageStatus(video_result[1].stages, "text_moderation") = "failed"
  /\ StageStatus(video_result[1].stages, "summarization") = "failed"
  /\ v.raised = None
  /\ response = video_result

\* ------------------------------------------------- the order of stages
\* the stages that ran: those with timestamps
Executed(times) == { i \in DOMAIN times : times[i].started_at # None }

\* every executed stage ends no earlier than it starts, and starts no earlier
\* than every executed stage before it started and ended
TimesInOrder(times) ==
  /\ \A i \in Executed(times) :
       /\ times[i].completed_at # None
       /\ times[i].started_at[1] <= times[i].completed_at[1]
  /\ \A i, j \in Executed(times) :
       i < j => /\ times[i].started_at[1] <= times[j].started_at[1]
                /\ times[i].completed_at[1] <= times[j].started_at[1]

TerminalStageStatus == { "completed", "failed", "skipped" }

\* C20: the stages of every run are not empty and stand in the order of the
\* pipeline; VideoPipelineService.process records exactly the three stages
\* transcription, text_moderation, summarization, each with a terminal
\* status; the starts of the executed stages do not decrease, and no stage
\* starts before the executed stage before it has ended.
C20_StagesInOrder ==
  /\ TimesInOrder(v.stage_times)
  /\ TimesInOrder(img.stage_times)
  /\ video_result # None =>
       LET r == video_result[1]
       IN  /\ StageNames(r.stages) = << "transcription", "text_moderation", "summarization" >>
           /\ \A i \in DOMAIN r.stages : r.stages[i].status \in TerminalStageStatus
           /\ Len(v.stage_times) = 3
           /\ \A i \in DOMAIN r.stages :
                ( r.stages[i].status = "skipped" ) <=> ( i \notin Executed(v.stage_times) )
  /\ image_result # None =>
       LET r == image_result[1]
       IN  /\ StageNames(r.stages) \in { << "download" >>, << "download", "image_moderation" >> }
           /\ \A i \in DOMAIN r.stages : r.stages[i].status \in TerminalStageStatus
           /\ Len(img.stage_times) = Len(r.stages)
           /\ \A i \in DOMAIN r.stages :
                ( r.stages[i].status = "skipped" ) <=> ( i \notin Executed(img.stage_times) )
  /\ response # None => response[1].stages # << >>

C20_Witness ==
  /\ video_result # None
  /\ \A i \in 1..3 : video_result[1].stages[i].status = "completed"
  /\ v.stage_times = << StageTimes(Some(0), Some(1)), StageTimes(Some(1), Some(1)),
                        StageTimes(Some(1), Some(2)) >>

\* ------------------------------------------------- the retry wrapper
\* the sleeps between n + 1 attempts: backoff_seconds * k after attempt k
Backoffs(n) == [ k \in 1..n |-> backoff_seconds * k ]

\* C21: _call_gemini_with_retry returns at the first attempt that succeeds
\* and makes no attempt after it; after the failed attempt k < max_retries it
\* has slept backoff_seconds * k before attempt k + 1; it does not sleep after
\* the last failed attempt; and it raises its error only when attempt number
\* max_retries has failed.
C21_BackoffBetweenAttempts ==
  /\ [] ( /\ image_port.pc = "calling" =>
               image_port.sleeps = Backoffs(image_port.attempt - 1)
          /\ image_port.pc \in { "parsing", "returned" } =>
               /\ image_port.invocations = image_port.attempt
               /\ image_port.sleeps = Backoffs(image_port.invocations - 1)
          /\ WrapperRaised(image_port) =>
               /\ image_port.attempt = max_retries
               /\ image_port.sleeps = Backoffs(max_retries - 1) )
  /\ [][ /\ image_port.pc \in { "parsing", "returned" } =>
              /\ image_port'.invocations = image_port.invocations
              /\ image_port'.sleeps = image_port.sleeps
         /\ ( image_port.pc = "calling" /\ image_port'.pc = "raised" ) =>
              image_port.attempt = max_retries
         /\ ( image_port.pc = "calling" /\ image_port'.pc = "parsing" ) =>
              /\ image_port'.invocations = image_port.invocations + 1
              /\ image_port'.sleeps = image_port.sleeps ]_vars

C21_Witness ==
  /\ image_port.pc = "returned"
  /\ image_port.invocations = 3
  /\ image_port.sleeps = << 1, 2 >>
  /\ image_port.last_exc # None

\* ------------------------------------------------------ the skip flags
\* C22: in a video run, skip_moderation = true means the text-safety port is
\* never invoked and text_moderation is recorded as skipped, skip_summary =
\* true means the summarizer is never invoked and summarization is recorded
\* as skipped, whatever the other stages did; with skip_moderation = true and
\* a transcription that returned non-blank text the run ends with verdict =
\* safe and is_safe = true.
C22_SkipFlagsSkipStages ==
  /\ ( request # None /\ request[1].skip_moderation ) => ~Called("text_safety")
  /\ ( request # None /\ request[1].skip_summary ) => ~Called("summarizer")
  /\ video_result # None =>
       LET r == video_result[1]
       IN  /\ request[1].skip_moderation =>
                /\ StageStatus(r.stages, "text_moderation") = "skipped"
                /\ r.text_moderation = None
           /\ request[1].skip_summary =>
                /\ StageStatus(r.stages, "summarization") = "skipped"
                /\ r.summary = None
           /\ ( request[1].skip_moderation /\ TranscriptionNonEmpty(r) ) =>
                ( r.verdict = "safe" /\ r.is_safe )

C22_Witness ==
  /\ video_result # None
  /\ request[1].skip_moderation
  /\ ~request[1].skip_summary
  /\ TranscriptionNonEmpty(video_result[1])
  /\ video_result[1].stages[2] = StageResult("text_moderation", "skipped", None,
                                             Some("Skipped by request"))
  /\ StageStatus(video_result[1].stages, "summarization") = "failed"
  /\ video_result[1].verdict = "safe"
  /\ video_result[1].is_safe

\* ------------------------------------------------- the GIF conversion
ImageSafetyCalls == { i \in DOMAIN calls : calls[i].port = "image_safety" }

\* C23: in an image run whose download has the content type image/gif: when
\* the conversion to one PNG frame fails, the run ends with verdict = error,
\* is_safe = false, the download stage failed and no call of the image-safety
\* port; when it succeeds, the port is called exactly once, with the
\* converted frame and the MIME type image/png. No call of the port is given
\* a GIF.
C23_GifIsConvertedOrFails ==
  /\ \A i \in ImageSafetyCalls : ~IsGifMime(calls[i].mime_type)
  /\ Cardinality(ImageSafetyCalls) <= 1
  /\ ( img.stages # << >> /\ img.stages[1].error = Some("GIF conversion failed") ) =>
       /\ IsGifMime(img.mime_type)
       /\ pc \in { "i_returned", "done" }
       /\ image_result = Some(ImagePipelineResponse(img, image_request[1].file_url))
       /\ image_result[1].verdict = "error"
       /\ ~image_result[1].is_safe
       /\ image_result[1].stages =
            << StageResult("download", "failed", Some("GIF conversion failed"), None) >>
       /\ ImageSafetyCalls = { }
  /\ img.image_bytes = Some("png_first_frame") =>
       /\ img.mime_type = "image/png"
       /\ img.stages[1] = StageResult("download", "completed", None, None)
       /\ pc # "i_moderation" =>
            /\ Cardinality(ImageSafetyCalls) = 1
            /\ \A i \in ImageSafetyCalls :
                 calls[i] = PortCall("image_safety", "image/png", "png_first_frame")

C23_Witness ==
  /\ image_result # None
  /\ img.image_bytes = Some("png_first_frame")
  /\ calls = << PortCall("image_safety", "image/png", "png_first_frame") >>
  /\ StageStatus(image_result[1].stages, "image_moderation") = "completed"

\* ------------------------------------ the degraded moderation record
\* C24: whenever the text-safety call of a video run failed, whatever it
\* raised, the result carries a text_moderation record with verdict = 'error'
\* and is_safe = false: the field is never absent when the text_moderation
\* stage is failed.
C24_FailedModerationHasDegradedRecord ==
  video_result # None =>
    LET r == video_result[1]
    IN  StageStatus(r.stages, "text_moderation") = "failed" =>
          /\ r.text_moderation # None
          /\ r.text_moderation[1].verdict = "error"
          /\ ~r.text_moderation[1].is_safe

\* ------------------------------------------------- concurrent jobs
\* the tasks that take part in a step
Moved == { t \in DOMAIN tasks : tasks'[t] # tasks[t] }

C26_IsSafeImpliesClassifiedSafe ==
  image_result # None =>
    LET r == image_result[1]
    IN  r.is_safe =>
          /\ StageStatus(r.stages, "image_moderation") = "completed"
          /\ r.moderation # None
          /\ r.moderation[1].is_safe
          /\ Called("image_safety")

\* ------------------------------------------- the verdict of a GIF route
\* C27: for a GIF-routed video request the verdict of the returned video
\* result agrees with the image run: it is safe only if the verdict of the
\* image run is safe, and the gif_image_moderation stage is completed only if
\* the image_moderation stage of the image run completed with a safe
\* judgment.
C27_GifVerdictAgreesWithImageRun ==
  ( endpoint = "process_video" /\ image_result # None /\ response # None ) =>
    LET r == response[1]
        i == image_result[1]
    IN  /\ r.verdict = "safe" => i.verdict = "safe"
        /\ StageStatus(r.stages, "gif_image_moderation") = "completed" =>
             /\ StageStatus(i.stages, "image_moderation") = "completed"
             /\ i.moderation # None
             /\ i.moderation[1].is_safe

\* ------------------------------------ moderate_text when a category fails
\* the categories whose analysis raised
FailedCategories(categories) == { i \in DOMAIN categories : categories[i].error }

\* C28: moderate_text reports is_safe = true (verdict safe) for non-empty
\* text only if every category was analysed without error; when the analysis
\* of a category fails, the result is not a safe verdict, and the
\* text_moderation stage of the video pipeline does not complete as safe.
C28_SafeOnlyIfEveryCategoryAnalysed ==
  ( text_port.pc # "idle" /\ Strip(text_port.text) # << >> ) =>
    /\ text_port.result.is_safe => FailedCategories(text_port.categories) = { }
    /\ FailedCategories(text_port.categories) # { } => text_port.result.verdict # "safe"
    /\ ( text_port.pc = "staged" /\ FailedCategories(text_port.categories) # { } ) =>
         ~ ( /\ StageStatus(text_port.v.stages, "text_moderation") = "completed"
             /\ text_port.v.is_safe
             /\ text_port.v.overall_verdict = "safe" )

\* ------------------------------------ moderate_text, default thresholds
\* C30: with the default thresholds moderate_text never returns the verdict
\* 'warning': every violation score lies in 55..95 and only violated
\* categories count, so the result is unsafe exactly when flagged_categories
\* is not empty and safe with max_violation_score = 0 otherwise, and
\* is_safe = true exactly when the verdict is safe.
C30_NoWarningWithDefaultThresholds ==
  ( text_port.pc # "idle" /\ settings = DefaultSettings ) =>
    LET r == text_port.result
        violated == { i \in DOMAIN text_port.categories : text_port.categories[i].violated }
    IN  /\ r.verdict \in { "safe", "unsafe" }
        /\ ( r.verdict = "unsafe" ) <=> ( r.flagged_categories # << >> )
        /\ r.verdict = "safe" => r.max_violation_score = 0
        /\ r.is_safe <=> ( r.verdict = "safe" )
        /\ Strip(text_port.text) # << >> =>
             /\ Len(r.flagged_categories) = Cardinality(violated)
             /\ \A i \in violated : text_port.categories[i].confidence \in 55..95
             /\ r.flagged_categories # << >> => r.max_violation_score \in 55..95

C30_Witness ==
  /\ text_port.pc # "idle"
  /\ settings = DefaultSettings
  /\ text_port.result.verdict = "unsafe"
  /\ text_port.result.max_violation_score = 55
  /\ Len(text_port.result.flagged_categories) = 1
  /\ \E i \in DOMAIN text_port.categories :
       ~text_port.categories[i].violated /\ text_port.categories[i].confidence = 40

\* ------------------------------------------- the records of the registry
\* C29: in every reachable state and for every job record, result is present
\* exactly when status = completed, error is present exactly when
\* status = failed, completed_at is present exactly when the status is
\* completed or failed; and a job_id once stored is never removed from the
\* registry.
C29_JobRecordFieldsFollowStatus ==
  /\ [] ( \A j \in DOMAIN job_store :
            LET rec == job_store[j]
            IN  /\ rec.status \in { "pending", "processing", "completed", "failed" }
                /\ ( rec.result # None ) <=> ( rec.status = "completed" )
                /\ ( rec.error # None ) <=> ( rec.status = "failed" )
                /\ ( rec.completed_at # None ) <=> Terminal(rec) )
  /\ [][ /\ DOMAIN job_store \subseteq DOMAIN job_store'
         /\ \A j \in DOMAIN job_store : job_store'[j].job_id = job_store[j].job_id ]_vars

C29_Witness ==
  /\ DOMAIN job_store = { 1, 2 }
  /\ job_store[1].status = "completed"
  /\ job_store[1].result # None
  /\ job_store[1].completed_at # None
  /\ job_store[2].status = "failed"
  /\ job_store[2].error = Some("maximum recursion depth exceeded")
  /\ job_store[2].result = None

====
